---- MODULE Spec2Model ----
(***************************************************************************)
(* Model of src/lib/open-e2ee.ts: the OpenE2EE envelope manager.           *)
(*                                                                         *)
(* Every async method is cut at its awaits.  The synchronous prefix of a   *)
(* method is one action (named after the method); each continuation that   *)
(* runs when an awaited engine promise settles is one action.  A method    *)
(* invocation is a record of `calls`; it keeps the method's arguments, its *)
(* locals, the arguments it handed to the engines and its settled result.  *)
(*                                                                         *)
(* The engines (./pgp, ./encryption, ./encoding.utils) are not part of the *)
(* source at hand; they are modelled symbolically from their contract.     *)
(***************************************************************************)
EXTENDS Integers, Sequences, FiniteSets, Bags, TLC

\* ------------------------------------------------------------------ bounds
MaxInFlight == 2     \* invocations the caller has outstanding at once
MaxPairs == 3        \* key pairs in existence, the persisted ones included
MaxKeys == 2         \* symmetric keys the symmetric engine generates
KeyLen == 2          \* bytes of a symmetric key

Insts == {1, 2}               \* OpenE2EE instances a caller may construct
Pass == {"p1", "p2"}          \* passphrases
Plain == {"hello", "bye"}     \* plaintext items

\* ------------------------------------------------------------------ values
\* PGPPrivateKey / PGPPublicKey handles, undefined before build/load.
UndefH == [t |-> "undefined", k |-> 0]
PrivH(k) == [t |-> "priv", k |-> k]
PubH(k) == [t |-> "pub", k |-> k]

\* Serialized keys (strings).  k names the generated pair, pass the
\* passphrase that protects an armored private key.
UndefTxt == [t |-> "undefined", k |-> 0, pass |-> ""]
EmptyTxt == [t |-> "empty", k |-> 0, pass |-> ""]
BadTxt == [t |-> "bad", k |-> 0, pass |-> ""]
EncPrivTxt(k, p) == [t |-> "encpriv", k |-> k, pass |-> p]
PubTxt(k) == [t |-> "pubkey", k |-> k, pass |-> ""]

\* Wrapped symmetric key: encrypted to pair `to`, signed by pair `by`.
NoWrap == [t |-> "none", to |-> 0, by |-> 0, text |-> <<>>]
BadWrap == [t |-> "bad", to |-> 0, by |-> 0, text |-> <<>>]
WrapTxt(to, by, text) == [t |-> "wrap", to |-> to, by |-> by, text |-> text]

\* Payload ciphertext under the hex text of a symmetric key.
NoPay == [t |-> "none", key |-> <<>>, data |-> ""]
BadPay == [t |-> "bad", key |-> <<>>, data |-> ""]
PayTxt(hex, data) == [t |-> "pay", key |-> hex, data |-> data]

\* CryptoKey handle of a symmetric key.
NoSym == [t |-> "none", bytes |-> <<>>]
SymH(bytes) == [t |-> "sym", bytes |-> bytes]

\* Outcome of an engine promise.
Ok(v) == [ok |-> TRUE, err |-> "none", v |-> v]
Fail(e) == [ok |-> FALSE, err |-> e, v |-> 0]

\* ----------------------------------------------------- encoding.utils
\* arrayToHexString: two hex digits (0..15) per byte.
arrayToHexString(bytes) ==
  [j \in 1..(2 * Len(bytes)) |->
     IF j % 2 = 1 THEN bytes[(j + 1) \div 2] \div 16
                  ELSE bytes[j \div 2] % 16]

\* hexStringToArray: one byte per two hex digits.
hexStringToArray(hex) ==
  [j \in 1..(Len(hex) \div 2) |-> 16 * hex[2 * j - 1] + hex[2 * j]]

\* ----------------------------------------------------- EncryptionService
\* The n-th random key the symmetric engine hands out.
KeyBytes(n) == [j \in 1..KeyLen |-> (37 * n + 101 * j) % 256]

createEncryptionKey(n) == Ok([key |-> KeyBytes(n), keyObj |-> SymH(KeyBytes(n))])

importSymmetricKey(bytes) ==
  IF Len(bytes) = KeyLen THEN Ok(SymH(bytes)) ELSE Fail("KeyImportFailure")

\* ----------------------------------------------------- PGPService
generateKeyPair(n, pass, uid) ==
  Ok([privateKey |-> EncPrivTxt(n, pass), publicKey |-> PubTxt(n)])

decryptPrivateKey(txt, pass) ==
  IF txt.t # "encpriv" THEN Fail("InvalidSerializedKey")
  ELSE IF txt.pass # pass THEN Fail("PassphraseMismatch")
  ELSE Ok(PrivH(txt.k))

readPublicKey(txt) ==
  IF txt.t # "pubkey" THEN Fail("InvalidSerializedKey") ELSE Ok(PubH(txt.k))

encryptAsymmetric(priv, pub, text) ==
  IF priv.t # "priv" \/ pub.t # "pub" THEN Fail("WrapFailure")
  ELSE Ok(WrapTxt(pub.k, priv.k, text))

decryptAsymmetric(priv, pub, w) ==
  IF priv.t # "priv" \/ pub.t # "pub" THEN Fail("UnwrapFailure")
  ELSE IF w.t # "wrap" \/ w.to # priv.k \/ w.by # pub.k THEN Fail("UnwrapFailure")
  ELSE Ok(w.text)

pgpEncrypt(hex, data) == Ok(PayTxt(hex, data))

pgpDecrypt(hex, c) ==
  IF c.t # "pay" \/ c.key # hex THEN Fail("PayloadDecryptionFailure")
  ELSE Ok(c.data)

\* ------------------------------------------------------------------ state
VARIABLES
  userId,                    \* this.userId, per instance
  passphrase,                \* this.passphrase
  privateKey,                \* this.privateKey
  publicKey,                 \* this.publicKey
  privateKeyEncryptedText,   \* this.privateKeyEncryptedText
  publicKeyText,             \* this.publicKeyText
  calls,                     \* bag of the invocations suspended at an await
  width,                     \* invocations the caller keeps outstanding at once
  faulty,                    \* whether the engines may fail on good input
  last,                      \* the invocation whose promise settled in this step
  items,                     \* what the encrypt calls have returned so far
  pairs,                     \* key pairs the asymmetric engine generated
  nextKey                    \* index of the next symmetric key generated

fields == <<privateKey, publicKey, privateKeyEncryptedText, publicKeyText>>
ctor == <<userId, passphrase>>
env == <<width, faulty>>
vars == <<userId, passphrase, privateKey, publicKey, privateKeyEncryptedText,
          publicKeyText, calls, width, faulty, last, items, pairs, nextKey>>

NoRet == [t |-> "none", inst |-> 0, privateKey |-> UndefTxt, publicKey |-> UndefTxt,
          encryptedKey |-> NoWrap, encryptedValue |-> NoPay, keyObj |-> NoSym,
          key |-> <<>>, value |-> ""]

\* A fresh invocation record of method op on instance i.
NewCall(op, i) ==
  [op |-> op, inst |-> i, pc |-> "idle", err |-> "none",
   ready |-> FALSE,                   \* history: encrypt/decrypt called when Ready
   encryptedPrivateKey |-> UndefTxt,  \* load argument / build local privateKey
   publicKey |-> UndefTxt,            \* load argument / build local publicKey
   data |-> "",                       \* encrypt argument
   encryptedKey |-> NoWrap,           \* decrypt argument
   encryptedData |-> NoPay,           \* decrypt argument
   key |-> <<>>,                      \* key bytes (encrypt: generated, decrypt: decoded)
   hex |-> <<>>,                      \* key text given to pgpService.encrypt/decrypt
   keyObj |-> NoSym,
   s1 |-> "none", s2 |-> "none",      \* the two promises of a Promise.all
   privateKeyObj |-> UndefH, publicKeyObj |-> UndefH,
   wrapped |-> NoWrap, cipher |-> NoPay,
   usedPriv |-> UndefH, usedPub |-> UndefH,   \* handles given to the engine
   usedText |-> <<>>,                         \* text given to encryptAsymmetric
   ret |-> NoRet]

Idle == NewCall("none", 0)
InFlight == BagToSet(calls)
Inst == DOMAIN passphrase     \* the instances that were constructed

\* The two states of an instance.
Uninitialized(i) ==
  /\ privateKey[i].t = "undefined" /\ publicKey[i].t = "undefined"
  /\ privateKeyEncryptedText[i].t = "undefined" /\ publicKeyText[i].t = "undefined"
Ready(i) ==
  /\ privateKey[i].t # "undefined" /\ publicKey[i].t # "undefined"
  /\ privateKeyEncryptedText[i].t # "undefined" /\ publicKeyText[i].t # "undefined"

\* The invocation record of an item method op called on instance i.
Call(op, i) == [NewCall(op, i) EXCEPT !.ready = Ready(i)]

\* The caller makes an invocation that suspends at its first await.
Start(cr) ==
  /\ BagCardinality(calls) < width
  /\ calls' = calls (+) SetToBag({cr})
  /\ last' = Idle

\* Invocation c goes on to its next await, as cr.
Suspend(c, cr) ==
  /\ calls' = (calls (-) SetToBag({c})) (+) SetToBag({cr})
  /\ last' = Idle

\* The promise of invocation c settles: the caller gets ret, or the error e.
Resolve(c, cr, ret) ==
  /\ calls' = calls (-) SetToBag({c})
  /\ last' = [cr EXCEPT !.pc = "resolved", !.ret = ret]

Reject(c, cr, e) ==
  /\ calls' = calls (-) SetToBag({c})
  /\ last' = [cr EXCEPT !.pc = "rejected", !.err = e]

\* An engine promise settles as its contract says or, where the engines may
\* fail, rejects although its input is fine (a collaborator failure).
Inject == IF faulty THEN BOOLEAN ELSE {FALSE}
Settle(inject, natural) == IF inject THEN Fail("EngineFailure") ELSE natural

\* Engine key generations that are still outstanding.
PendingGen(op) ==
  LET gen == {x \in InFlight : x.op = op /\ x.pc = "gen"}
  IN BagCardinality([x \in gen |-> calls[x]])

\* Key pairs persisted by earlier sessions: one of user 1, under "p1", and
\* one of user 2, under "p2".
Persisted == <<[pass |-> "p1", uid |-> 1], [pass |-> "p2", uid |-> 2]>>

\* The state after construction of the instances in `is`, for a caller that
\* keeps at most w invocations outstanding.
Constructed(is, w, f) ==
  /\ userId = [i \in is |-> i]
  /\ passphrase = [i \in is |-> IF i = 1 THEN "p1" ELSE "p2"]
  /\ privateKey = [i \in is |-> UndefH]
  /\ publicKey = [i \in is |-> UndefH]
  /\ privateKeyEncryptedText = [i \in is |-> UndefTxt]
  /\ publicKeyText = [i \in is |-> UndefTxt]
  /\ calls = EmptyBag
  /\ width = w
  /\ faulty = f
  /\ last = Idle
  /\ items = {}
  /\ pairs = Persisted
  /\ nextKey = 1

\* One instance, of user 1 with passphrase "p1", used one invocation at a
\* time; the engines honour their contract.
Init == Constructed({1}, 1, FALSE)

\* The same, with engines that may fail.
InitFaults == Constructed({1}, 1, TRUE)

\* Two instances, of users 1 and 2, used one invocation at a time.
InitShared == Constructed(Insts, 1, FALSE)

\* One instance, with invocations overlapping and engines that may fail.
InitConcurrent == Constructed({1}, MaxInFlight, TRUE)

\* ------------------------------------------------------------ build / load
\* Mutant: the two serialized forms are stored in each other's field.
StoreKeyPair_swapped(i, cr) ==
  /\ privateKey' = [privateKey EXCEPT ![i] = cr.privateKeyObj]
  /\ publicKey' = [publicKey EXCEPT ![i] = cr.publicKeyObj]
  /\ privateKeyEncryptedText' = [privateKeyEncryptedText EXCEPT ![i] = cr.publicKey]
  /\ publicKeyText' = [publicKeyText EXCEPT ![i] = cr.encryptedPrivateKey]

\* this.privateKey = ...; this.publicKey = ...; this.privateKeyEncryptedText
\* = ...; this.publicKeyText = ...  (one synchronous block, no await inside)
StoreKeyPair(i, cr) ==
  /\ privateKey' = [privateKey EXCEPT ![i] = cr.privateKeyObj]
  /\ publicKey' = [publicKey EXCEPT ![i] = cr.publicKeyObj]
  /\ privateKeyEncryptedText' = [privateKeyEncryptedText EXCEPT ![i] = cr.encryptedPrivateKey]
  /\ publicKeyText' = [publicKeyText EXCEPT ![i] = cr.publicKey]

\* Mutant: only the first of the two promises is awaited.
PromiseAll_first(s1, s2) ==
  IF s1 = "fail" THEN "fail"
  ELSE IF s1 = "ok" THEN "ok"
  ELSE "pending"

\* Mutant: the join fulfils as soon as one of the two promises has fulfilled.
PromiseAll_race(s1, s2) ==
  IF s1 = "ok" \/ s2 = "ok" THEN "ok"
  ELSE IF s1 = "fail" \/ s2 = "fail" THEN "fail"
  ELSE "pending"

\* Promise.all of the two promises: rejects with the first rejection, fulfils
\* when both have fulfilled.
PromiseAll(s1, s2) ==
  IF s1 = "fail" \/ s2 = "fail" THEN "fail"
  ELSE IF s1 = "ok" /\ s2 = "ok" THEN "ok"
  ELSE "pending"

\* return this
This(i) == [NoRet EXCEPT !.t = "this", !.inst = i]

\* Mutant: the fields are assigned whatever the outcome of the join, so a
\* failed build/load stores the handles it has.
KeyPairJoin_partial(c, cr, e) ==
  IF PromiseAll(cr.s1, cr.s2) = "fail"
  THEN /\ Reject(c, cr, e)
       /\ StoreKeyPair(cr.inst, cr)
  ELSE IF PromiseAll(cr.s1, cr.s2) = "ok"
  THEN /\ StoreKeyPair(cr.inst, cr)
       /\ Resolve(c, cr, This(cr.inst))
  ELSE /\ Suspend(c, cr)
       /\ UNCHANGED fields

\* The continuation of build/load after `await Promise.all([...])`, run when
\* one of the two promises settles; cr is the invocation with that promise's
\* outcome recorded, e the error if it rejected.  Once Promise.all has
\* rejected, the continuation is gone and the other promise is dropped.
KeyPairJoin(c, cr, e) ==
  IF PromiseAll(cr.s1, cr.s2) = "fail"
  THEN /\ Reject(c, cr, e)
       /\ UNCHANGED fields
  ELSE IF PromiseAll(cr.s1, cr.s2) = "ok"
  THEN /\ StoreKeyPair(cr.inst, cr)
       /\ Resolve(c, cr, This(cr.inst))
  ELSE /\ Suspend(c, cr)
       /\ UNCHANGED fields

\* build(): issues generateKeyPair(this.passphrase, this.userId) and suspends.
build(i) ==
  /\ Len(pairs) + PendingGen("build") < MaxPairs
  /\ Start([NewCall("build", i) EXCEPT !.pc = "gen"])
  /\ UNCHANGED <<env, ctor, fields, items, pairs, nextKey>>

\* generateKeyPair settled: build issues decryptPrivateKey and readPublicKey.
build_generated(c) ==
  /\ c.op = "build" /\ c.pc = "gen"
  /\ \E inject \in Inject :
       LET i == c.inst
           n == Len(pairs) + 1
           r == Settle(inject, generateKeyPair(n, passphrase[i], userId[i]))
       IN IF r.ok
          THEN /\ pairs' = Append(pairs, [pass |-> passphrase[i], uid |-> userId[i]])
               /\ Suspend(c, [c EXCEPT
                                !.pc = "all", !.s1 = "pending", !.s2 = "pending",
                                !.encryptedPrivateKey = r.v.privateKey,
                                !.publicKey = r.v.publicKey])
          ELSE /\ pairs' = pairs
               /\ Reject(c, c, r.err)
  /\ UNCHANGED <<env, ctor, fields, items, nextKey>>

\* Mutant: the private key handle and its serialized form are assigned as soon
\* as decryptPrivateKey fulfils, before the join.
PrivateKeyDone_eager(c) ==
  /\ c.s1 = "pending"
  /\ \E inject \in Inject :
       LET i == c.inst
           r == Settle(inject, decryptPrivateKey(c.encryptedPrivateKey, passphrase[i]))
           cr == IF r.ok
                 THEN [c EXCEPT !.s1 = "ok", !.privateKeyObj = r.v]
                 ELSE [c EXCEPT !.s1 = "fail"]
       IN IF ~r.ok
          THEN Reject(c, cr, r.err) /\ UNCHANGED fields
          ELSE IF PromiseAll(cr.s1, cr.s2) = "ok"
          THEN StoreKeyPair(i, cr) /\ Resolve(c, cr, This(i))
          ELSE /\ Suspend(c, cr)
               /\ privateKey' = [privateKey EXCEPT ![i] = r.v]
               /\ privateKeyEncryptedText' =
                    [privateKeyEncryptedText EXCEPT ![i] = c.encryptedPrivateKey]
               /\ UNCHANGED <<publicKey, publicKeyText>>
  /\ UNCHANGED <<env, ctor, items, pairs, nextKey>>

\* decryptPrivateKey(privateKey, this.passphrase) settled.
PrivateKeyDone(c) ==
  /\ c.s1 = "pending"
  /\ \E inject \in Inject :
       LET i == c.inst
           r == Settle(inject, decryptPrivateKey(c.encryptedPrivateKey, passphrase[i]))
           cr == IF r.ok
                 THEN [c EXCEPT !.s1 = "ok", !.privateKeyObj = r.v]
                 ELSE [c EXCEPT !.s1 = "fail"]
       IN KeyPairJoin(c, cr, r.err)
  /\ UNCHANGED <<env, ctor, items, pairs, nextKey>>

\* Mutant: the public key handle and its serialized form are assigned as soon
\* as readPublicKey fulfils, before the join.
PublicKeyDone_eager(c) ==
  /\ c.s2 = "pending"
  /\ \E inject \in Inject :
       LET i == c.inst
           r == Settle(inject, readPublicKey(c.publicKey))
           cr == IF r.ok
                 THEN [c EXCEPT !.s2 = "ok", !.publicKeyObj = r.v]
                 ELSE [c EXCEPT !.s2 = "fail"]
       IN IF ~r.ok
          THEN Reject(c, cr, r.err) /\ UNCHANGED fields
          ELSE IF PromiseAll(cr.s1, cr.s2) = "ok"
          THEN StoreKeyPair(i, cr) /\ Resolve(c, cr, This(i))
          ELSE /\ Suspend(c, cr)
               /\ publicKey' = [publicKey EXCEPT ![i] = r.v]
               /\ publicKeyText' = [publicKeyText EXCEPT ![i] = c.publicKey]
               /\ UNCHANGED <<privateKey, privateKeyEncryptedText>>
  /\ UNCHANGED <<env, ctor, items, pairs, nextKey>>

\* readPublicKey(publicKey) settled.
PublicKeyDone(c) ==
  /\ c.s2 = "pending"
  /\ \E inject \in Inject :
       LET r == Settle(inject, readPublicKey(c.publicKey))
           cr == IF r.ok
                 THEN [c EXCEPT !.s2 = "ok", !.publicKeyObj = r.v]
                 ELSE [c EXCEPT !.s2 = "fail"]
       IN KeyPairJoin(c, cr, r.err)
  /\ UNCHANGED <<env, ctor, items, pairs, nextKey>>

build_privateKeyDone(c) ==
  c.op = "build" /\ PrivateKeyDone(c)

build_publicKeyDone(c) ==
  c.op = "build" /\ PublicKeyDone(c)

\* What a caller passes to load: the two serialized forms of one generated
\* pair (load's documented input), either of them possibly corrupt.
LoadArgs ==
  {a \in ({EncPrivTxt(k, pairs[k].pass) : k \in DOMAIN pairs} \cup {BadTxt})
           \X ({PubTxt(k) : k \in DOMAIN pairs} \cup {BadTxt}) :
     a[1].t = "bad" \/ a[2].t = "bad" \/ a[1].k = a[2].k}

\* load(encryptedPrivateKey, publicKey): issues decryptPrivateKey and
\* readPublicKey and suspends at Promise.all.
load(i, encryptedPrivateKey, publicKeyArg) ==
  /\ Start([NewCall("load", i) EXCEPT
              !.pc = "all", !.s1 = "pending", !.s2 = "pending",
              !.encryptedPrivateKey = encryptedPrivateKey,
              !.publicKey = publicKeyArg])
  /\ UNCHANGED <<env, ctor, fields, items, pairs, nextKey>>

load_privateKeyDone(c) ==
  c.op = "load" /\ PrivateKeyDone(c)

load_publicKeyDone(c) ==
  c.op = "load" /\ PublicKeyDone(c)

\* ------------------------------------------------------- exportMasterKeys
\* Mutant: the `|| ""` fallback is missing.
OrEmpty_none(x) == x

\* JavaScript's x || "": the empty string when x is undefined or empty.
OrEmpty(x) == IF x.t \in {"undefined", "empty"} THEN EmptyTxt ELSE x

\* Mutant: the usable private key handle is exported.
ExportValue_handle(i) ==
  [NoRet EXCEPT !.t = "keys",
                !.privateKey = privateKey[i],
                !.publicKey = OrEmpty(publicKeyText[i])]

\* return { privateKey: ... || "", publicKey: ... || "" }
ExportValue(i) ==
  [NoRet EXCEPT !.t = "keys",
                !.privateKey = OrEmpty(privateKeyEncryptedText[i]),
                !.publicKey = OrEmpty(publicKeyText[i])]

\* Mutant: exporting hands the serialized forms over and forgets them.
exportMasterKeys_take(i) ==
  /\ last' = [NewCall("export", i) EXCEPT !.pc = "resolved", !.ret = ExportValue(i)]
  /\ privateKeyEncryptedText' = [privateKeyEncryptedText EXCEPT ![i] = EmptyTxt]
  /\ publicKeyText' = [publicKeyText EXCEPT ![i] = EmptyTxt]
  /\ UNCHANGED <<env, ctor, privateKey, publicKey, calls, items, pairs, nextKey>>

\* exportMasterKeys(): no await, the promise is fulfilled at once.
exportMasterKeys(i) ==
  /\ last' = [NewCall("export", i) EXCEPT !.pc = "resolved", !.ret = ExportValue(i)]
  /\ UNCHANGED <<env, ctor, fields, calls, items, pairs, nextKey>>

\* ---------------------------------------------------------------- encrypt
\* Mutant: the raw key bytes are wrapped, not their hex text.
encryptKey_raw(i, key) ==
  [priv |-> privateKey[i], pub |-> publicKey[i], text |-> key]

\* encryptKey(key): the arguments of pgpService.encryptAsymmetric, read from
\* the instance when the call is made.
encryptKey(i, key) ==
  [priv |-> privateKey[i], pub |-> publicKey[i], text |-> arrayToHexString(key)]

\* Mutant: the first key is kept and used for every item.
NewItemKey_cached(n) == createEncryptionKey(1)

\* const { key, keyObj } = await this.cryptoSvc.createEncryptionKey(): every
\* encrypt asks the engine for a key of its own (n: the engine's next key).
NewItemKey(n) == createEncryptionKey(n)

\* Mutant: the payload is encrypted under the raw bytes, not their hex text.
PayloadKey_raw(key) == key

\* The key text pgpService.encrypt is given: arrayToHexString(key).
PayloadKey(key) == arrayToHexString(key)

\* return { encryptedKey, encryptedValue, keyObj }
EncryptedItem(cr) ==
  [NoRet EXCEPT !.t = "encrypted", !.encryptedKey = cr.wrapped,
                !.encryptedValue = cr.cipher, !.keyObj = cr.keyObj]

\* History: an item encrypt returned, with the plaintext and the generated
\* key it was made from and the key handles the wrap was given.
Item(cr, ret) ==
  [data |-> cr.data, key |-> cr.key,
   priv |-> cr.usedPriv, pub |-> cr.usedPub,
   encryptedKey |-> ret.encryptedKey, encryptedValue |-> ret.encryptedValue]

\* Mutant: the join waits for both promises and returns whatever it has, like
\* Promise.allSettled with the outcomes not inspected.
ItemJoin_settled(c, cr, e) ==
  IF cr.s1 = "pending" \/ cr.s2 = "pending"
  THEN /\ Suspend(c, cr)
       /\ UNCHANGED items
  ELSE /\ Resolve(c, cr, EncryptedItem(cr))
       /\ items' = items \cup {Item(cr, EncryptedItem(cr))}

\* The continuation of encrypt after `await Promise.all([...])`.
ItemJoin(c, cr, e) ==
  IF PromiseAll(cr.s1, cr.s2) = "fail"
  THEN /\ Reject(c, cr, e)
       /\ UNCHANGED items
  ELSE IF PromiseAll(cr.s1, cr.s2) = "ok"
  THEN /\ Resolve(c, cr, EncryptedItem(cr))
       /\ items' = items \cup {Item(cr, EncryptedItem(cr))}
  ELSE /\ Suspend(c, cr)
       /\ UNCHANGED items

\* encrypt(data): issues createEncryptionKey() and suspends.
encrypt(i, data) ==
  /\ nextKey - 1 + PendingGen("encrypt") < MaxKeys
  /\ Start([Call("encrypt", i) EXCEPT !.pc = "gen", !.data = data])
  /\ UNCHANGED <<env, ctor, fields, items, pairs, nextKey>>

\* createEncryptionKey settled: encrypt issues encryptKey(key) and
\* pgpService.encrypt(arrayToHexString(key), data).
encrypt_keyCreated(c) ==
  /\ c.op = "encrypt" /\ c.pc = "gen"
  /\ \E inject \in Inject :
       LET i == c.inst
           r == Settle(inject, NewItemKey(nextKey))
       IN IF r.ok
          THEN /\ nextKey' = nextKey + 1
               /\ Suspend(c, [c EXCEPT
                                !.pc = "all", !.s1 = "pending", !.s2 = "pending",
                                !.key = r.v.key, !.keyObj = r.v.keyObj,
                                !.usedPriv = encryptKey(i, r.v.key).priv,
                                !.usedPub = encryptKey(i, r.v.key).pub,
                                !.usedText = encryptKey(i, r.v.key).text,
                                !.hex = PayloadKey(r.v.key)])
          ELSE /\ nextKey' = nextKey
               /\ Reject(c, c, r.err)
  /\ UNCHANGED <<env, ctor, fields, items, pairs>>

\* pgpService.encryptAsymmetric settled.
encrypt_keyWrapped(c) ==
  /\ c.op = "encrypt" /\ c.s1 = "pending"
  /\ \E inject \in Inject :
       LET r == Settle(inject, encryptAsymmetric(c.usedPriv, c.usedPub,
                                                 c.usedText))
           cr == IF r.ok
                 THEN [c EXCEPT !.s1 = "ok", !.wrapped = r.v]
                 ELSE [c EXCEPT !.s1 = "fail"]
       IN ItemJoin(c, cr, r.err)
  /\ UNCHANGED <<env, ctor, fields, pairs, nextKey>>

\* pgpService.encrypt settled.
encrypt_valueEncrypted(c) ==
  /\ c.op = "encrypt" /\ c.s2 = "pending"
  /\ \E inject \in Inject :
       LET r == Settle(inject, pgpEncrypt(c.hex, c.data))
           cr == IF r.ok
                 THEN [c EXCEPT !.s2 = "ok", !.cipher = r.v]
                 ELSE [c EXCEPT !.s2 = "fail"]
       IN ItemJoin(c, cr, r.err)
  /\ UNCHANGED <<env, ctor, fields, pairs, nextKey>>

\* ---------------------------------------------------------------- decrypt
\* Mutant: the key handles are kept in state shared by all instances, so every
\* instance unwraps with the handles of the first.
decryptKey_shared(i, encryptedKey) ==
  [priv |-> privateKey[1], pub |-> publicKey[1], w |-> encryptedKey]

\* decryptKey(encryptedKey): the arguments of pgpService.decryptAsymmetric,
\* read from the instance when the call is made.
decryptKey(i, encryptedKey) ==
  [priv |-> privateKey[i], pub |-> publicKey[i], w |-> encryptedKey]

\* return { key, value, keyObj }
PlainItem(cr, value) ==
  [NoRet EXCEPT !.t = "item", !.key = cr.hex, !.value = value, !.keyObj = cr.keyObj]

\* What a caller passes to decrypt: texts that encrypt returned, in any
\* combination, or texts no encrypt produced.
KeyArgs == {it.encryptedKey : it \in items} \cup {BadWrap}
ValueArgs == {it.encryptedValue : it \in items} \cup {BadPay}

\* decrypt(encryptedKey, encryptedData): decryptKey issues
\* pgpService.decryptAsymmetric and suspends.
decrypt(i, encryptedKey, encryptedData) ==
  /\ Start([Call("decrypt", i) EXCEPT
              !.pc = "unwrap",
              !.encryptedKey = decryptKey(i, encryptedKey).w,
              !.encryptedData = encryptedData,
              !.usedPriv = decryptKey(i, encryptedKey).priv,
              !.usedPub = decryptKey(i, encryptedKey).pub])
  /\ UNCHANGED <<env, ctor, fields, items, pairs, nextKey>>

\* Mutant: the key import is not awaited: the payload decryption is issued as
\* soon as the key is unwrapped.
decrypt_keyUnwrapped_unawaited(c) ==
  /\ c.op = "decrypt" /\ c.pc = "unwrap"
  /\ \E inject \in Inject :
       LET r == Settle(inject, decryptAsymmetric(c.usedPriv, c.usedPub,
                                                 c.encryptedKey))
       IN IF r.ok
          THEN Suspend(c, [c EXCEPT !.pc = "payload", !.hex = r.v,
                                           !.key = hexStringToArray(r.v)])
          ELSE Reject(c, c, r.err)
  /\ UNCHANGED <<env, ctor, fields, items, pairs, nextKey>>

\* decryptAsymmetric settled: decryptKey issues
\* importSymmetricKey(hexStringToArray(key)).
decrypt_keyUnwrapped(c) ==
  /\ c.op = "decrypt" /\ c.pc = "unwrap"
  /\ \E inject \in Inject :
       LET r == Settle(inject, decryptAsymmetric(c.usedPriv, c.usedPub,
                                                 c.encryptedKey))
       IN IF r.ok
          THEN Suspend(c, [c EXCEPT !.pc = "import", !.hex = r.v,
                                           !.key = hexStringToArray(r.v)])
          ELSE Reject(c, c, r.err)
  /\ UNCHANGED <<env, ctor, fields, items, pairs, nextKey>>

\* importSymmetricKey settled: decryptKey returns { key, keyObj } and decrypt
\* issues pgpService.decrypt(key, encryptedData).
decrypt_keyImported(c) ==
  /\ c.op = "decrypt" /\ c.pc = "import"
  /\ \E inject \in Inject :
       LET r == Settle(inject, importSymmetricKey(c.key))
       IN IF r.ok
          THEN Suspend(c, [c EXCEPT !.pc = "payload", !.keyObj = r.v])
          ELSE Reject(c, c, r.err)
  /\ UNCHANGED <<env, ctor, fields, items, pairs, nextKey>>

\* Mutant: a failure of the payload decryption is swallowed and an item with
\* an empty value is returned.
decrypt_valueDecrypted_lenient(c) ==
  /\ c.op = "decrypt" /\ c.pc = "payload"
  /\ \E inject \in Inject :
       LET r == Settle(inject, pgpDecrypt(c.hex, c.encryptedData))
       IN IF r.ok
          THEN Resolve(c, c, PlainItem(c, r.v))
          ELSE Resolve(c, c, PlainItem(c, ""))
  /\ UNCHANGED <<env, ctor, fields, items, pairs, nextKey>>

\* Mutant: when the payload decryption fails the instance drops its key
\* handles (a wipe on suspected tampering).
decrypt_valueDecrypted_wipe(c) ==
  /\ c.op = "decrypt" /\ c.pc = "payload"
  /\ \E inject \in Inject :
       LET r == Settle(inject, pgpDecrypt(c.hex, c.encryptedData))
       IN IF r.ok
          THEN Resolve(c, c, PlainItem(c, r.v)) /\ UNCHANGED fields
          ELSE /\ Reject(c, c, r.err)
               /\ privateKey' = [privateKey EXCEPT ![c.inst] = UndefH]
               /\ publicKey' = [publicKey EXCEPT ![c.inst] = UndefH]
               /\ UNCHANGED <<privateKeyEncryptedText, publicKeyText>>
  /\ UNCHANGED <<env, ctor, items, pairs, nextKey>>

\* pgpService.decrypt settled: decrypt returns the item.
decrypt_valueDecrypted(c) ==
  /\ c.op = "decrypt" /\ c.pc = "payload"
  /\ \E inject \in Inject :
       LET r == Settle(inject, pgpDecrypt(c.hex, c.encryptedData))
       IN IF r.ok
          THEN Resolve(c, c, PlainItem(c, r.v))
          ELSE Reject(c, c, r.err)
  /\ UNCHANGED <<env, ctor, fields, items, pairs, nextKey>>

\* ------------------------------------------------------------ specification
Next ==
  \/ \E i \in Inst : build(i)
  \/ \E c \in InFlight : build_generated(c)
  \/ \E c \in InFlight : build_privateKeyDone(c)
  \/ \E c \in InFlight : build_publicKeyDone(c)
  \/ \E i \in Inst : \E a \in LoadArgs : load(i, a[1], a[2])
  \/ \E c \in InFlight : load_privateKeyDone(c)
  \/ \E c \in InFlight : load_publicKeyDone(c)
  \/ \E i \in Inst : exportMasterKeys(i)
  \/ \E i \in Inst : \E d \in Plain : encrypt(i, d)
  \/ \E c \in InFlight : encrypt_keyCreated(c)
  \/ \E c \in InFlight : encrypt_keyWrapped(c)
  \/ \E c \in InFlight : encrypt_valueEncrypted(c)
  \/ \E i \in Inst : \E k \in KeyArgs : \E v \in ValueArgs : decrypt(i, k, v)
  \/ \E c \in InFlight : decrypt_keyUnwrapped(c)
  \/ \E c \in InFlight : decrypt_keyImported(c)
  \/ \E c \in InFlight : decrypt_valueDecrypted(c)

Spec == Init /\ [][Next]_vars

SpecFaults == InitFaults /\ [][Next]_vars

SpecShared == InitShared /\ [][Next]_vars

SpecConcurrent == InitConcurrent /\ [][Next]_vars

\* A step in which an engine call that was issued settles.
EngineStep ==
  \E c \in InFlight :
    \/ build_generated(c) \/ build_privateKeyDone(c) \/ build_publicKeyDone(c)
    \/ load_privateKeyDone(c) \/ load_publicKeyDone(c)
    \/ encrypt_keyCreated(c) \/ encrypt_keyWrapped(c) \/ encrypt_valueEncrypted(c)
    \/ decrypt_keyUnwrapped(c) \/ decrypt_keyImported(c) \/ decrypt_valueDecrypted(c)

\* The engines always answer: while engine calls are outstanding, one of
\* them eventually settles.
EnginesComplete == WF_vars(EngineStep)

\* One instance, one invocation at a time, engines that always answer.
SpecLive == Init /\ [][Next]_vars /\ EnginesComplete

\* -------------------------------------------------------------- properties
\* A step in which the promise of a suspended invocation settles.
SettleStep == calls' # calls /\ last'.pc \in {"resolved", "rejected"}

\* A step that is a call of exportMasterKeys.
ExportStep == calls' = calls /\ last'.op = "export"

\* C1: encrypt or decrypt called on an instance on which no build or load has
\* completed fails with a not-ready error, and no wrap or unwrap is issued to
\* the asymmetric engine with an absent private or public key handle.
C1_NotReadyGuard ==
  /\ \A c \in InFlight :
       ((c.op = "encrypt" /\ c.pc = "all") \/ (c.op = "decrypt" /\ c.pc = "unwrap"))
         => (c.usedPriv.t # "undefined" /\ c.usedPub.t # "undefined")
  /\ (last.op \in {"encrypt", "decrypt"} /\ ~last.ready)
       => (last.pc = "rejected" /\ last.err = "NotInitialized")

\* Decrypt invocation d was given the item `it` that an encrypt returned, on
\* an instance that held the same key pair at both calls.
FromItem(d, it) ==
  /\ d.op = "decrypt"
  /\ d.encryptedKey = it.encryptedKey /\ d.encryptedData = it.encryptedValue
  /\ d.usedPriv = it.priv /\ d.usedPub = it.pub

\* C2: round trip.  A decrypt of what one encrypt(P) returned, under the key
\* pair that encrypt used, resolves with value P and with the hex text of the
\* key generated in that encrypt.
C2_RoundTrip ==
  \A it \in items :
    FromItem(last, it)
      => /\ last.pc = "resolved"
         /\ last.ret.value = it.data
         /\ last.ret.key = arrayToHexString(it.key)

C2_Witness ==
  \E it \in items :
    FromItem(last, it) /\ last.pc = "resolved" /\ last.ret.value = it.data

\* C3: the key-pair fields are written at most once: once an instance is
\* Ready, no later build or load changes any of the four fields.
C3_WrittenOnce ==
  [][\A i \in Inst :
       Ready(i) => /\ privateKey'[i] = privateKey[i]
                   /\ publicKey'[i] = publicKey[i]
                   /\ privateKeyEncryptedText'[i] = privateKeyEncryptedText[i]
                   /\ publicKeyText'[i] = publicKeyText[i]]_vars

\* C4: there is no Ready -> Uninitialized transition: once all four key-pair
\* fields are set they stay set, whatever is called and whatever fails.
C4_NoReset == [][\A i \in Inst : Ready(i) => Ready(i)']_vars

C4_Witness ==
  /\ last.op \in {"build", "load"} /\ last.pc = "rejected"
  /\ Ready(last.inst)

\* A load of a private key that is protected by another passphrase than the
\* instance's.
WrongPassphrase(c) ==
  /\ c.op = "load" /\ c.encryptedPrivateKey.t = "encpriv"
  /\ c.encryptedPrivateKey.pass # passphrase[c.inst]

\* C5: a load under the wrong passphrase, with a public key that imports
\* fine, is rejected with the engine's decryption error, returns no instance,
\* and leaves the four key-pair fields as they were.
C5_WrongPassphrase ==
  /\ []((WrongPassphrase(last) /\ last.publicKey.t = "pubkey")
          => (last.pc = "rejected" /\ last.err = "PassphraseMismatch"
              /\ last.ret = NoRet))
  /\ [][(SettleStep /\ WrongPassphrase(last')) => UNCHANGED fields]_vars

C5_Witness ==
  /\ WrongPassphrase(last) /\ last.pc = "rejected"
  /\ last.s2 = "ok"                       \* the public key was imported
  /\ Uninitialized(last.inst)

\* C6: exportMasterKeys returns the stored serialized forms, and these are
\* load's two arguments verbatim, or the two texts generateKeyPair gave build.
C6_ExportVerbatim ==
  /\ []((last.op = "export" /\ Ready(last.inst))
          => /\ last.ret.privateKey = privateKeyEncryptedText[last.inst]
             /\ last.ret.publicKey = publicKeyText[last.inst])
  /\ [][(SettleStep /\ last'.op \in {"build", "load"} /\ last'.pc = "resolved")
          => /\ privateKeyEncryptedText'[last'.inst] = last'.encryptedPrivateKey
             /\ publicKeyText'[last'.inst] = last'.publicKey
             /\ last'.op = "build"
                  => \E n \in DOMAIN pairs' :
                       /\ n > Len(Persisted)
                       /\ last'.encryptedPrivateKey = EncPrivTxt(n, pairs'[n].pass)
                       /\ last'.publicKey = PubTxt(n)]_vars

C6_Witness ==
  /\ last.op = "export" /\ Ready(last.inst)
  /\ last.ret.privateKey = EncPrivTxt(1, Persisted[1].pass)   \* stored by a load
  /\ last.ret.publicKey = PubTxt(1)

\* C7: exportMasterKeys on an instance on which no build or load has
\* completed, also while one is in flight, resolves with two empty strings.
C7_ExportEmpty ==
  (last.op = "export" /\ Uninitialized(last.inst))
    => /\ last.pc = "resolved"
       /\ last.ret.privateKey = EmptyTxt
       /\ last.ret.publicKey = EmptyTxt

C7_Witness ==
  /\ last.op = "export" /\ Uninitialized(last.inst)
  /\ \E c \in InFlight : c.inst = last.inst /\ c.op \in {"build", "load"} /\ c.pc = "all"

\* C8: exportMasterKeys writes no instance field, a second call right after a
\* first returns the same result, and the serialized forms it reads change
\* only in the step in which a build or load completes.
C8_PureAccessor ==
  [][/\ ExportStep
          => /\ UNCHANGED <<ctor, fields>>
             /\ (last.op = "export" /\ last.inst = last'.inst) => last'.ret = last.ret
     /\ ~(SettleStep /\ last'.op \in {"build", "load"} /\ last'.pc = "resolved")
          => UNCHANGED <<privateKeyEncryptedText, publicKeyText>>]_vars

C8_Witness ==
  /\ last.op = "export" /\ last.ret.privateKey.t = "encpriv"
  /\ Ready(last.inst)

\* C9: no value returned to a caller is a usable key handle of the key pair
\* or the passphrase; private-key material is only returned as the
\* serialization protected by the instance's passphrase.
C9_NoKeyLeak ==
  last.pc = "resolved"
    => /\ last.ret.privateKey.t \notin {"priv", "pub"}
       /\ last.ret.publicKey.t \notin {"priv", "pub"}
       /\ last.ret.keyObj.t \notin {"priv", "pub"}
       /\ last.ret.value \notin Pass
       /\ last.ret.privateKey.t \in {"undefined", "empty", "encpriv"}
       /\ last.ret.privateKey.t = "encpriv"
            => last.ret.privateKey.pass = passphrase[last.inst]

C9_Witness ==
  /\ last.op = "export" /\ last.pc = "resolved"
  /\ privateKey[last.inst].t = "priv"
  /\ last.ret.privateKey.t = "encpriv"

\* C10: the encryptedValue of one encrypt call is not decryptable with the
\* encryptedKey of another: such a decrypt is rejected.
C10_Binding ==
  \A a, b \in items :
    (a # b /\ last.op = "decrypt"
       /\ last.encryptedKey = a.encryptedKey /\ last.encryptedData = b.encryptedValue)
      => last.pc = "rejected"

C10_Witness ==
  \E a, b \in items :
    /\ a # b /\ a.priv = b.priv /\ a.pub = b.pub
    /\ last.op = "decrypt" /\ last.usedPriv = a.priv /\ last.usedPub = a.pub
    /\ last.encryptedKey = a.encryptedKey /\ last.encryptedData = b.encryptedValue
    /\ last.pc = "rejected" /\ last.err = "PayloadDecryptionFailure"

\* C11: cross-identity isolation.  A decrypt of an item's encryptedKey on an
\* instance that holds another key pair than the one the item was wrapped
\* under fails at the unwrap step: no key is imported, no payload decryption
\* is issued, and no key, value or key handle is returned.
C11_Isolation ==
  \A it \in items :
    (/\ last.op = "decrypt" /\ last.ready
     /\ last.encryptedKey = it.encryptedKey
     /\ privateKey[last.inst] # it.priv /\ publicKey[last.inst] # it.pub)
      => /\ last.pc = "rejected" /\ last.err = "UnwrapFailure"
         /\ last.hex = <<>> /\ last.key = <<>> /\ last.keyObj = NoSym
         /\ last.ret = NoRet

C11_Witness ==
  \E it \in items :
    /\ it.priv = PrivH(1) /\ it.pub = PubH(1)           \* wrapped by user 1
    /\ last.op = "decrypt" /\ last.inst = 2
    /\ privateKey[2] = PrivH(2) /\ publicKey[2] = PubH(2)
    /\ last.encryptedKey = it.encryptedKey /\ last.encryptedData = it.encryptedValue
    /\ last.pc = "rejected" /\ last.err = "UnwrapFailure"

\* An encrypt invocation that holds its generated key.
HoldsKey(c) == c.op = "encrypt" /\ c.pc = "all"

\* C12: key uniqueness.  Every encrypt call works with a symmetric key of its
\* own: the keys held by encrypt calls in flight differ from each other and
\* from the key of every item returned so far, and an item that encrypt
\* returns differs in encryptedKey and in encryptedValue from every item
\* returned before, the plaintext being the same or not.
C12_KeyUniqueness ==
  /\ [](/\ \A c \in InFlight : HoldsKey(c) => calls[c] = 1
        /\ \A c, d \in InFlight : (HoldsKey(c) /\ HoldsKey(d) /\ c # d) => c.key # d.key
        /\ \A c \in InFlight : \A it \in items : HoldsKey(c) => c.key # it.key
        /\ \A a, b \in items :
             a # b => /\ a.key # b.key
                      /\ a.encryptedKey # b.encryptedKey
                      /\ a.encryptedValue # b.encryptedValue)
  /\ [][(SettleStep /\ last'.op = "encrypt" /\ last'.pc = "resolved")
          => \A it \in items :
               /\ it.key # last'.key
               /\ it.encryptedKey # last'.ret.encryptedKey
               /\ it.encryptedValue # last'.ret.encryptedValue]_vars

\* Two overlapping encrypt calls of the same plaintext, one of which has
\* returned while the other still waits for its wrap and payload encryption.
C12_Witness ==
  /\ last.op = "encrypt" /\ last.pc = "resolved"
  /\ \E c \in InFlight : HoldsKey(c) /\ c.data = last.data /\ c.inst = last.inst

\* C13: tamper rejection.  A decrypt that succeeds was given the encryptedKey
\* and the encryptedValue that one and the same encrypt call returned, and
\* its value is the plaintext of that call; given a text no encrypt produced,
\* in either argument, decrypt fails.
C13_TamperRejection ==
  /\ (last.op = "decrypt" /\ last.pc = "resolved")
       => \E it \in items :
            /\ last.encryptedKey = it.encryptedKey
            /\ last.encryptedData = it.encryptedValue
            /\ last.ret.value = it.data
  /\ (last.op = "decrypt" /\ (last.encryptedKey = BadWrap \/ last.encryptedData = BadPay))
       => (last.pc = "rejected" /\ last.ret = NoRet)

\* A tampered value together with an item's own encryptedKey: the key is
\* unwrapped and imported, and the payload decryption rejects.
C13_Witness ==
  \E it \in items :
    /\ last.op = "decrypt" /\ last.ready
    /\ last.encryptedKey = it.encryptedKey /\ last.encryptedData = BadPay
    /\ last.keyObj = SymH(it.key)
    /\ last.pc = "rejected" /\ last.err = "PayloadDecryptionFailure"

\* The errors the engines reject with.
EngineErrors ==
  {"EngineFailure", "KeyImportFailure", "InvalidSerializedKey", "PassphraseMismatch",
   "WrapFailure", "UnwrapFailure", "PayloadDecryptionFailure"}

\* Engine calls invocation c has still to see settle before it can return.
Remaining(c) ==
  IF c.pc \in {"gen", "unwrap"} THEN 3
  ELSE IF c.pc = "import" THEN 2
  ELSE IF c.pc = "payload" THEN 1
  ELSE (IF c.s1 = "pending" THEN 1 ELSE 0) + (IF c.s2 = "pending" THEN 1 ELSE 0)

RECURSIVE Work(_, _)
Work(b, S) ==
  IF S = {} THEN 0
  ELSE LET c == CHOOSE x \in S : TRUE
       IN b[c] * Remaining(c) + Work(b, S \ {c})

\* C14: a collaborator failure aborts the operation.  encrypt returns an item
\* only when key generation, wrap and payload encryption all succeeded, and
\* decrypt only when unwrap, key import and payload decryption all succeeded;
\* a failed operation returns nothing and carries the engine's error; and no
\* engine call is made again: every step of an invocation after its call
\* leaves fewer engine calls to wait for.
C14_FailureAborts ==
  /\ []((last.op = "encrypt" /\ last.pc = "resolved")
          => /\ last.key # <<>> /\ last.keyObj.t = "sym"
             /\ last.s1 = "ok" /\ last.s2 = "ok" /\ last.err = "none"
             /\ last.ret.encryptedKey.t = "wrap" /\ last.ret.encryptedValue.t = "pay"
             /\ last.ret.keyObj = last.keyObj)
  /\ []((last.op = "decrypt" /\ last.pc = "resolved")
          => /\ last.hex # <<>> /\ last.keyObj.t = "sym" /\ last.err = "none"
             /\ last.ret.key = last.hex /\ last.ret.keyObj = last.keyObj
             /\ last.ret.value \in Plain)
  /\ []((last.op \in {"encrypt", "decrypt"} /\ last.pc = "rejected")
          => (last.ret = NoRet /\ last.err \in EngineErrors))
  /\ [][(calls' # calls /\ BagCardinality(calls') <= BagCardinality(calls))
          => Work(calls', BagToSet(calls')) < Work(calls, BagToSet(calls))]_vars

\* The payload was encrypted and the wrap failed: encrypt returns no item.
C14_Witness ==
  /\ last.op = "encrypt" /\ last.ready /\ last.pc = "rejected"
  /\ last.s1 = "fail" /\ last.s2 = "ok" /\ last.cipher.t = "pay"
  /\ last.err = "EngineFailure" /\ last.ret = NoRet

Settled(c) == c.pc \in {"resolved", "rejected"}

\* C15 as stated: an operation neither resolves nor rejects while an engine
\* call it issued is still outstanding.
C15_NoSettleWhileOutstanding ==
  (last.op \in {"build", "load", "encrypt", "decrypt"} /\ Settled(last))
    => (last.s1 # "pending" /\ last.s2 # "pending")

\* C15, amended: an operation does not resolve while an engine call it issued
\* is outstanding; it rejects only when an engine call it issued rejected,
\* which Promise.all passes on at once, the other call of the pair still
\* outstanding or not; an operation settles only in a step in which one of
\* its engine calls settles, so it stays pending as long as they do; and
\* when every engine call settles, every operation settles.
C15_HangAndCompletion ==
  /\ []((last.op \in {"build", "load", "encrypt", "decrypt"} /\ last.pc = "resolved")
          => (last.s1 # "pending" /\ last.s2 # "pending" /\ last.err = "none"))
  /\ []((last.op \in {"build", "load", "encrypt", "decrypt"} /\ last.pc = "rejected")
          => /\ last.err \in EngineErrors
             /\ (last.s1 = "pending" \/ last.s2 = "pending")
                  => (last.s1 = "fail" \/ last.s2 = "fail"))
  /\ [][(Settled(last') /\ last'.op # "export" /\ last' # last)
          => \E c \in InFlight :
               /\ c.op = last'.op /\ c.inst = last'.inst
               /\ Remaining(c) >= 1
               /\ Work(calls', BagToSet(calls')) = Work(calls, BagToSet(calls)) - Remaining(c)]_vars
  /\ (calls # EmptyBag) ~> (Settled(last) /\ last.op # "export")

\* The wrap failed and encrypt was rejected while its payload encryption was
\* still outstanding.
C15_Witness ==
  /\ last.op = "encrypt" /\ last.pc = "rejected"
  /\ last.s1 = "fail" /\ last.s2 = "pending"

\* A step in which a build or load fails.
KeyPairFails == SettleStep /\ last'.op \in {"build", "load"} /\ last'.pc = "rejected"

\* C16: a build or load that fails leaves no partial state.  The step in
\* which it fails writes none of the four key-pair fields, whichever engine
\* call failed and whichever of the two parallel calls settled first; the
\* fields change only in the step in which a build or load succeeds; so an
\* instance is at all times Uninitialized or Ready, an Uninitialized one
\* stays so and a Ready one keeps its key pair.
C16_NoPartialState ==
  /\ [](\A i \in Inst : Uninitialized(i) \/ Ready(i))
  /\ [][KeyPairFails => UNCHANGED fields]_vars
  /\ [][~(SettleStep /\ last'.op \in {"build", "load"} /\ last'.pc = "resolved")
          => UNCHANGED fields]_vars

\* A load on a Ready instance whose private key was decrypted and whose
\* public-key import then failed: the instance still holds its own pair.
C16_Witness ==
  /\ last.op = "load" /\ last.pc = "rejected"
  /\ last.s1 = "ok" /\ last.s2 = "fail"
  /\ Ready(last.inst)
  /\ privateKey[last.inst] # last.privateKeyObj
  /\ privateKeyEncryptedText[last.inst] # last.encryptedPrivateKey

\* Decrypt invocation d is invocation c one step further.
SameDecrypt(c, d) ==
  /\ c.op = "decrypt" /\ d.op = "decrypt" /\ c.inst = d.inst
  /\ c.encryptedKey = d.encryptedKey /\ c.encryptedData = d.encryptedData

\* C17: decrypt's steps are strictly ordered.  The key import is issued only
\* on the text a successful unwrap recovered, the payload decryption only
\* after the import of that text has succeeded and under that text; a decrypt
\* whose unwrap or import failed has issued no payload decryption.
C17_DecryptOrder ==
  /\ [](\A c \in InFlight :
          c.op = "decrypt"
            => /\ c.pc \in {"unwrap", "import", "payload"}
               /\ c.pc = "unwrap" => (c.hex = <<>> /\ c.keyObj = NoSym)
               /\ c.pc = "import"
                    => /\ decryptAsymmetric(c.usedPriv, c.usedPub, c.encryptedKey) = Ok(c.hex)
                       /\ c.key = hexStringToArray(c.hex) /\ c.keyObj = NoSym
               /\ c.pc = "payload"
                    => /\ decryptAsymmetric(c.usedPriv, c.usedPub, c.encryptedKey) = Ok(c.hex)
                       /\ importSymmetricKey(hexStringToArray(c.hex)) = Ok(c.keyObj))
  /\ [][\A d \in BagToSet(calls') :
          (d.op = "decrypt" /\ d \notin InFlight)
            => \/ d.pc = "unwrap"
               \/ d.pc = "import" /\ \E c \in InFlight : SameDecrypt(c, d) /\ c.pc = "unwrap"
               \/ d.pc = "payload" /\ \E c \in InFlight : SameDecrypt(c, d) /\ c.pc = "import"]_vars
  /\ [][(SettleStep /\ last'.op = "decrypt")
          => \/ /\ last'.pc = "resolved"
                /\ \E c \in InFlight : SameDecrypt(c, last') /\ c.pc = "payload"
             \/ /\ last'.pc = "rejected"
                /\ \E c \in InFlight :
                     /\ SameDecrypt(c, last')
                     /\ c.pc = "payload" <=> last'.keyObj # NoSym]_vars

\* The key was unwrapped and its import failed: decrypt is rejected from the
\* import step.
C17_Witness ==
  /\ last.op = "decrypt" /\ last.pc = "rejected"
  /\ last.hex # <<>> /\ last.keyObj = NoSym
  /\ last.err = "EngineFailure"

\* Encrypt invocation d is invocation c one step further.
SameEncrypt(c, d) ==
  /\ c.op = "encrypt" /\ d.op = "encrypt" /\ c.inst = d.inst /\ c.data = d.data

\* C18: in encrypt, neither the wrap nor the payload encryption is issued
\* before the key generation has completed; both are issued in the step that
\* follows it, before either is awaited, on the hex text of the one generated
\* key; encrypt returns only when both have fulfilled; and what it returns is
\* determined by the key, the key pair and the plaintext, so it is the same
\* whichever of the two completes first.
C18_EncryptJoin ==
  /\ [](\A c \in InFlight :
          c.op = "encrypt"
            => /\ c.pc \in {"gen", "all"}
               /\ c.pc = "gen"
                    => (c.key = <<>> /\ c.s1 = "none" /\ c.s2 = "none"
                        /\ c.usedText = <<>> /\ c.hex = <<>>)
               /\ c.pc = "all"
                    => /\ c.key # <<>> /\ c.keyObj = SymH(c.key)
                       /\ c.usedText = arrayToHexString(c.key)
                       /\ c.hex = arrayToHexString(c.key)
                       /\ c.s1 \in {"pending", "ok"} /\ c.s2 \in {"pending", "ok"}
                       /\ c.s1 = "pending" \/ c.s2 = "pending")
  /\ [][\A d \in BagToSet(calls') :
          (d.op = "encrypt" /\ d.pc = "all" /\ d \notin InFlight)
            => \/ /\ d.s1 = "pending" /\ d.s2 = "pending"
                  /\ \E c \in InFlight : SameEncrypt(c, d) /\ c.pc = "gen"
               \/ \E c \in InFlight :
                    /\ SameEncrypt(c, d) /\ c.pc = "all" /\ c.key = d.key
                    /\ c.s1 = "pending" /\ c.s2 = "pending"]_vars
  /\ []((last.op = "encrypt" /\ last.pc = "resolved")
          => /\ last.s1 = "ok" /\ last.s2 = "ok"
             /\ Ok(last.ret.encryptedKey)
                  = encryptAsymmetric(last.usedPriv, last.usedPub, arrayToHexString(last.key))
             /\ Ok(last.ret.encryptedValue) = pgpEncrypt(arrayToHexString(last.key), last.data)
             /\ last.ret.keyObj = SymH(last.key))
  /\ [][(SettleStep /\ last'.op = "encrypt" /\ last'.pc = "resolved")
          => \E c \in InFlight :
               /\ SameEncrypt(c, last') /\ c.key = last'.key /\ c.pc = "all"
               /\ (c.s1 = "ok" /\ c.s2 = "pending") \/ (c.s1 = "pending" /\ c.s2 = "ok")]_vars

\* The payload encryption, issued second, has completed first; the wrap is
\* still outstanding.
C18_Witness ==
  \E c \in InFlight :
    /\ HoldsKey(c) /\ c.ready
    /\ c.s1 = "pending" /\ c.s2 = "ok"
    /\ c.cipher = PayTxt(arrayToHexString(c.key), c.data)

\* A step of an encrypt or decrypt invocation: its call, one of its
\* continuations, or its settlement.
ItemStep ==
  \E c \in InFlight \cup BagToSet(calls') :
    /\ c.op \in {"encrypt", "decrypt"}
    /\ CopiesIn(c, calls) # CopiesIn(c, calls')

\* Item `it` can be decrypted by instance i as it is now.
Decryptable(i, it) ==
  /\ decryptAsymmetric(privateKey[i], publicKey[i], it.encryptedKey)
       = Ok(arrayToHexString(it.key))
  /\ pgpDecrypt(arrayToHexString(it.key), it.encryptedValue) = Ok(it.data)

\* C19: encrypt and decrypt are safely concurrent with each other.  No step
\* of an encrypt or decrypt writes an instance field; each call works with
\* the handles it read from the instance and with its own arguments and key,
\* so what it returns is what it returns when run alone; and every item
\* returned stays decryptable by an instance that holds the key pair it was
\* wrapped under.
C19_ItemCallsConcurrent ==
  /\ [][ItemStep => UNCHANGED <<ctor, fields>>]_vars
  /\ [][\A d \in BagToSet(calls') :
          (d \notin InFlight /\ d.pc \in {"unwrap", "all"} /\ d.op \in {"encrypt", "decrypt"}
             /\ (d.op = "encrypt" => d.s1 = "pending" /\ d.s2 = "pending"))
            => (d.usedPriv = privateKey[d.inst] /\ d.usedPub = publicKey[d.inst])]_vars
  /\ []((last.op = "encrypt" /\ last.pc = "resolved")
          => /\ Ok(last.ret.encryptedKey)
                  = encryptAsymmetric(last.usedPriv, last.usedPub, arrayToHexString(last.key))
             /\ Ok(last.ret.encryptedValue) = pgpEncrypt(arrayToHexString(last.key), last.data))
  /\ []((last.op = "decrypt" /\ last.pc = "resolved")
          => /\ Ok(last.ret.key)
                  = decryptAsymmetric(last.usedPriv, last.usedPub, last.encryptedKey)
             /\ Ok(last.ret.value) = pgpDecrypt(last.ret.key, last.encryptedData))
  /\ [](\A it \in items :
          /\ \A i \in Inst :
               (privateKey[i] = it.priv /\ publicKey[i] = it.pub /\ it.priv.t = "priv")
                 => Decryptable(i, it)
          /\ FromItem(last, it)
               => \/ last.pc = "resolved" /\ last.ret.value = it.data
                  \/ last.pc = "rejected" /\ last.err = "EngineFailure")

\* A decrypt of an earlier item has returned its plaintext while an encrypt
\* on the same Ready instance is waiting for its wrap and payload encryption.
C19_Witness ==
  /\ last.op = "decrypt" /\ last.ready /\ last.pc = "resolved"
  /\ \E it \in items : FromItem(last, it) /\ last.ret.value = it.data
  /\ \E c \in InFlight : HoldsKey(c) /\ c.ready /\ c.inst = last.inst

\* The four key-pair fields of instance i are those of one key pair: the
\* private handle is the stored encrypted private key decrypted under the
\* passphrase, the public handle the stored public key imported, and both
\* are halves of the same pair.
OnePair(i) ==
  /\ Ready(i)
  /\ decryptPrivateKey(privateKeyEncryptedText[i], passphrase[i]) = Ok(privateKey[i])
  /\ readPublicKey(publicKeyText[i]) = Ok(publicKey[i])
  /\ privateKey[i].k = publicKey[i].k

\* C20: key-pair consistency at every suspension point.  In every state the
\* four fields of an instance are all unset or are those of one key pair,
\* also while build and load calls overlap; the build or load that completes
\* last sets all four fields to its own; and no wrap or unwrap is given a
\* private handle of one pair with the public handle of another.
C20_KeyPairConsistency ==
  /\ [](\A i \in Inst : Uninitialized(i) \/ OnePair(i))
  /\ [][(SettleStep /\ last'.op \in {"build", "load"} /\ last'.pc = "resolved")
          => /\ privateKey'[last'.inst] = last'.privateKeyObj
             /\ publicKey'[last'.inst] = last'.publicKeyObj
             /\ privateKeyEncryptedText'[last'.inst] = last'.encryptedPrivateKey
             /\ publicKeyText'[last'.inst] = last'.publicKey]_vars
  /\ [](\A c \in InFlight :
          (HoldsKey(c) \/ c.op = "decrypt")
            => \/ c.usedPriv = UndefH /\ c.usedPub = UndefH
               \/ /\ c.usedPriv.t = "priv" /\ c.usedPub.t = "pub"
                  /\ c.usedPriv.k = c.usedPub.k)

\* A load has completed and set the four fields while a build on the same
\* instance, which has its own private key decrypted already, is still
\* waiting for its public key.
C20_Witness ==
  /\ last.op = "load" /\ last.pc = "resolved"
  /\ \E c \in InFlight :
       /\ c.op = "build" /\ c.inst = last.inst
       /\ c.pc = "all" /\ c.s1 = "ok" /\ c.s2 = "pending"
       /\ c.privateKeyObj # privateKey[last.inst]
  /\ OnePair(last.inst)

====
